---- MODULE Spec2Model ----
(***************************************************************************)
(* A model of the books application of library_api: the Author and Book    *)
(* tables with their many-to-many relation, the REST write and read        *)
(* operations of AuthorViewSet and BookViewSet, the validation of          *)
(* BookWriteSerializer, and the reporting queries (statistics, recent).    *)
(*                                                                         *)
(* Strings that the code inspects character by character (the ISBN) are    *)
(* sequences of one-character strings.  Dates are day numbers.  Every      *)
(* request is one step: it reads the store, possibly writes it, and leaves *)
(* its response in resp.  The fields of a row that no operation modelled   *)
(* here inspects (title, publisher, description, birth_date, nationality,  *)
(* biography, email, the timestamps) are left out; a request body is taken *)
(* to carry valid values for them.                                         *)
(***************************************************************************)
EXTENDS Integers, Sequences, FiniteSets, TLC

VARIABLES
    authors,        \* Author table: id -> [first_name, last_name]
    books,          \* Book table: id -> [isbn, publication_date, pages, language]
    rel,            \* Book.authors through table: set of <<book id, author id>>
    nextAuthorId,   \* next primary key of the Author table
    nextBookId,     \* next primary key of the Book table
    today,          \* date.today(), a day number
    resp,           \* the response of the last request
    handler         \* the statistics request in flight: its position, and the
                    \* tasks asyncio.gather made of its sub-queries

vars == <<authors, books, rel, nextAuthorId, nextBookId, today, resp, handler>>

(***************************************************************************)
(* Bounds of the model.                                                    *)
(***************************************************************************)
\* Spec: number of Author / Book rows ever created
MaxAuthors == 2
MaxBooks == 2
\* SpecIsbn: Book rows ever created, separators in a submitted ISBN
IsbnMaxBooks == 2
MaxSeps == 1
\* SpecAuthorStats: rows ever created
StatMaxAuthors == 6
StatMaxBooks == 2
\* SpecBookStats: rows ever created
CollabMaxAuthors == 3
CollabMaxBooks == 11
\* SpecRecent: rows ever created, days the clock advances
RecentMaxBooks == 3
MaxTicks == 1
\* SpecGather: rows ever created
GatherMaxAuthors == 2
GatherMaxBooks == 1

None == "None"          \* Python's None

\* timedelta(days=5 * 365) of BookViewSet.recent
FiveYears == 5 * 365
Null == {}              \* a nullable number is {} (NULL) or {n}

(***************************************************************************)
(* Generic helpers.                                                        *)
(***************************************************************************)
Min2(a, b) == IF a <= b THEN a ELSE b

SetMax(S) == CHOOSE x \in S : \A y \in S : y <= x

SetMin(S) == CHOOSE x \in S : \A y \in S : x <= y

RECURSIVE SetSum(_, _)
\* the sum of f[x] over x in S
SetSum(f, S) ==
    IF S = {} THEN 0
    ELSE LET x == CHOOSE y \in S : TRUE IN f[x] + SetSum(f, S \ {x})

RECURSIVE AscSeq(_)
\* the members of a set of integers, ascending
AscSeq(S) ==
    IF S = {} THEN <<>>
    ELSE LET x == SetMin(S) IN <<x>> \o AscSeq(S \ {x})

Reverse(s) == [i \in 1..Len(s) |-> s[Len(s) + 1 - i]]

Range(s) == {s[i] : i \in 1..Len(s)}

Take(s, n) == SubSeq(s, 1, Min2(n, Len(s)))

(***************************************************************************)
(* Request bodies are Python dicts: functions from the keys present.       *)
(***************************************************************************)
NoData == [k \in {} |-> None]

Get(d, k, default) == IF k \in DOMAIN d THEN d[k] ELSE default

(***************************************************************************)
(* Names.  NameOrder is the collation of the names used; a stored name has *)
(* at least two characters (MinLengthValidator(2)).                        *)
(***************************************************************************)
NameOrder == <<"Al", "Bo">>

NameRank(n) == CHOOSE i \in 1..Len(NameOrder) : NameOrder[i] = n

\* Author.full_name
full_name(a) == a.first_name \o " " \o a.last_name

\* Author.Meta.ordering = ['last_name', 'first_name'], as one integer key
AuthorOrderingKey(a) ==
    NameRank(a.last_name) * (Len(NameOrder) + 1) + NameRank(a.first_name)

(***************************************************************************)
(* Row order.  A query returns rows that compare equal under its ORDER BY  *)
(* in an order the database chooses; the model lets it be the scan of the  *)
(* primary keys in either direction, and sorts that scan stably.           *)
(***************************************************************************)
ScanOrders(S) == {AscSeq(S), Reverse(AscSeq(S))}

\* the place of the i-th row among rows of keys ks in ascending order:
\* after the rows of smaller key and the rows of equal key before it
PlaceAsc(ks, i) ==
    1 + Cardinality({j \in 1..Len(ks) : ks[j] < ks[i] \/ (ks[j] = ks[i] /\ j < i)})

\* the rows s put at their places
Placed(s, place) == [k \in 1..Len(s) |-> s[CHOOSE i \in 1..Len(s) : place[i] = k]]

\* the rows s, of keys ks, in ascending order of key (stable)
SortedByKeys(s, ks) ==
    CHOOSE r \in {Placed(s, place) : place \in {[i \in 1..Len(ks) |-> PlaceAsc(ks, i)]}} :
        TRUE

\* ORDER BY key ASC over the scan order s0
OrderByAsc(s0, key) ==
    CHOOSE r \in {SortedByKeys(s, ks) :
                     s \in {s0}, ks \in {[i \in 1..Len(s0) |-> key[s0[i]]]}} : TRUE

\* ORDER BY key DESC over the scan order s0
OrderByDesc(s0, key) ==
    CHOOSE r \in {SortedByKeys(s, ks) :
                     s \in {s0}, ks \in {[i \in 1..Len(s0) |-> 0 - key[s0[i]]]}} : TRUE

(***************************************************************************)
(* ISBN strings.                                                           *)
(***************************************************************************)
DigitChars == {"0", "1", "2", "3", "4", "5", "6", "7", "8", "9"}

DigitChar(n) == <<"0", "1", "2", "3", "4", "5", "6", "7", "8", "9">>[(n % 10) + 1]

\* str.replace(ch, '')
Remove(s, ch) == SelectSeq(s, LAMBDA c : c # ch)

\* str.isdigit(): non-empty and every character a digit
IsDigit(s) == Len(s) > 0 /\ \A i \in 1..Len(s) : s[i] \in DigitChars

RECURSIVE LStrip(_)
LStrip(s) == IF s # <<>> /\ Head(s) = " " THEN LStrip(Tail(s)) ELSE s

\* str.strip(), which CharField applies to its input (trim_whitespace)
Strip(s) == Reverse(LStrip(Reverse(LStrip(s))))

\* the maximum length of Book.isbn
IsbnMaxLength == 13

\* the ISBN with hyphens and spaces removed
StripIsbn(value) == Remove(Remove(value, "-"), " ")

\* BookWriteSerializer.validate_isbn: the error codes, or none
validate_isbn_errors(value) ==
    LET isbn == StripIsbn(value)
    IN  IF ~IsDigit(isbn) THEN {"digits"}
        ELSE IF Len(isbn) \notin {10, 13} THEN {"length"}
        ELSE {}

\* BookWriteSerializer.validate_isbn: the value it returns when it accepts
validate_isbn_value(value) == value

RECURSIVE MkIsbn(_, _, _, _)
\* An input ISBN: n digits d+1, d+2, ..., with a separator after each of the
\* first h digits (a hyphen, then a space, alternating), and a trailing "X"
\* when x.
MkIsbn(d, n, h, x) ==
    IF n = 0 THEN (IF x THEN <<"X">> ELSE <<>>)
    ELSE <<DigitChar(d + 1)>>
         \o (IF h > 0 THEN <<IF h % 2 = 1 THEN "-" ELSE " ">> ELSE <<>>)
         \o MkIsbn(d + 1, n - 1, IF h > 0 THEN h - 1 ELSE 0, x)

(***************************************************************************)
(* The store, read.                                                        *)
(***************************************************************************)
AuthorIds == DOMAIN authors

BookIds == DOMAIN books

\* book.authors: the Authors the through table relates to Book b
AuthorsOf(b) == {a \in AuthorIds : <<b, a>> \in rel}

\* author.books: the Books the through table relates to Author a
BooksOf(a) == {b \in BookIds : <<b, a>> \in rel}

\* a count of the whole Author table
get_author_count_all_rows(b) == Cardinality(AuthorIds)

\* obj.authors.acount() of the Book serializers
get_author_count(b) == Cardinality(AuthorsOf(b))

\* obj.books.acount() of the Author serializers
get_book_count(a) == Cardinality(BooksOf(a))

\* book.authors.all(): Author.Meta.ordering over the scan order
AuthorsOfOrdered(b, scan) ==
    OrderByAsc(SelectSeq(scan, LAMBDA a : a \in AuthorsOf(b)),
               [a \in AuthorIds |-> AuthorOrderingKey(authors[a])])

RECURSIVE Join(_)
\* ", ".join(names)
Join(names) ==
    IF names = <<>> THEN ""
    ELSE IF Len(names) = 1 THEN names[1]
    ELSE names[1] \o ", " \o Join(Tail(names))

\* Book.author_names / Book.aauthor_names
author_names(b, scan) ==
    LET as == AuthorsOfOrdered(b, scan)
    IN  Join([i \in 1..Len(as) |-> full_name(authors[as[i]])])

(***************************************************************************)
(* Serializers: the representation of a row.                               *)
(***************************************************************************)
AuthorListSerializer(a) ==
    [id |-> a,
     first_name |-> authors[a].first_name,
     last_name |-> authors[a].last_name,
     full_name |-> full_name(authors[a]),
     book_count |-> get_book_count(a)]

\* books holds the ids of the nested book summaries
AuthorDetailSerializer(a) ==
    [id |-> a,
     first_name |-> authors[a].first_name,
     last_name |-> authors[a].last_name,
     full_name |-> full_name(authors[a]),
     book_count |-> get_book_count(a),
     books |-> BooksOf(a)]

AuthorWriteSerializer(a) ==
    [id |-> a,
     first_name |-> authors[a].first_name,
     last_name |-> authors[a].last_name]

BookListSerializer(b, scan) ==
    LET as == AuthorsOfOrdered(b, scan)
    IN  [id |-> b,
         isbn |-> books[b].isbn,
         publication_date |-> books[b].publication_date,
         language |-> books[b].language,
         author_count |-> get_author_count(b),
         authors |-> [i \in 1..Len(as) |-> AuthorListSerializer(as[i])]]

BookDetailSerializer(b, scan) ==
    LET as == AuthorsOfOrdered(b, scan)
    IN  [id |-> b,
         isbn |-> books[b].isbn,
         publication_date |-> books[b].publication_date,
         pages |-> books[b].pages,
         language |-> books[b].language,
         author_count |-> get_author_count(b),
         author_names |-> author_names(b, scan),
         authors |-> [i \in 1..Len(as) |-> AuthorListSerializer(as[i])]]

\* authors holds the related primary keys
BookWriteSerializer(b) ==
    [id |-> b,
     isbn |-> books[b].isbn,
     publication_date |-> books[b].publication_date,
     pages |-> books[b].pages,
     language |-> books[b].language,
     authors |-> AuthorsOf(b)]

(***************************************************************************)
(* get_serializer_class of the two view sets, and the body it produces.    *)
(***************************************************************************)
WriteActions == {"create", "update", "partial_update"}

\* AuthorViewSet.get_serializer_class
AuthorSerializerClass(action) ==
    IF action = "list" THEN "AuthorListSerializer"
    ELSE IF action \in WriteActions THEN "AuthorWriteSerializer"
    ELSE "AuthorDetailSerializer"

\* a get_serializer_class without the write branch
BookSerializerClassAlwaysDetail(action) ==
    IF action = "list" THEN "BookListSerializer" ELSE "BookDetailSerializer"

\* BookViewSet.get_serializer_class
BookSerializerClass(action) ==
    IF action = "list" THEN "BookListSerializer"
    ELSE IF action \in WriteActions THEN "BookWriteSerializer"
    ELSE "BookDetailSerializer"

AuthorData(action, a) ==
    CASE AuthorSerializerClass(action) = "AuthorListSerializer" -> AuthorListSerializer(a)
      [] AuthorSerializerClass(action) = "AuthorWriteSerializer" -> AuthorWriteSerializer(a)
      [] OTHER -> AuthorDetailSerializer(a)

BookData(action, b, scan) ==
    CASE BookSerializerClass(action) = "BookListSerializer" -> BookListSerializer(b, scan)
      [] BookSerializerClass(action) = "BookWriteSerializer" -> BookWriteSerializer(b)
      [] OTHER -> BookDetailSerializer(b, scan)

(***************************************************************************)
(* Responses.                                                              *)
(***************************************************************************)
Response(op, target, req, status, errors, body) ==
    [op |-> op, target |-> target, req |-> req, status |-> status,
     errors |-> errors, body |-> body]

NotFound(op, target, req) == Response(op, target, req, 404, {}, NoData)

BadRequest(op, target, req, errors) == Response(op, target, req, 400, errors, NoData)

\* no statistics request is in flight
NoHandler == [op |-> "none", pc |-> "none", tasks |-> NoData]

Init ==
    /\ authors = NoData
    /\ books = NoData
    /\ rel = {}
    /\ nextAuthorId = 1
    /\ nextBookId = 1
    /\ today = FiveYears + 1
    /\ resp = Response("none", 0, NoData, 0, {}, NoData)
    /\ handler = NoHandler

(***************************************************************************)
(* Author writes: AuthorViewSet create / update / partial_update / destroy *)
(* with AuthorWriteSerializer.                                             *)
(***************************************************************************)
\* the errors of one name field: required, blank, MinLengthValidator(2)
NameFieldErrors(data, field, partial) ==
    IF field \notin DOMAIN data
    THEN (IF partial THEN {} ELSE {<<field, "required">>})
    ELSE IF data[field] = "" THEN {<<field, "blank">>}
    ELSE IF Len(data[field]) < 2 THEN {<<field, "min_length">>}
    ELSE {}

AuthorFieldErrors(data, partial) ==
    NameFieldErrors(data, "first_name", partial)
        \cup NameFieldErrors(data, "last_name", partial)

AuthorCreate(data) ==
    \E id \in {nextAuthorId} :
    LET errors == AuthorFieldErrors(data, FALSE)
    IN  IF errors # {}
        THEN /\ resp' = BadRequest("author_create", 0, data, errors)
             /\ UNCHANGED <<authors, books, rel, nextAuthorId, nextBookId, today, handler>>
        ELSE /\ authors' = (id :> [first_name |-> data.first_name,
                                   last_name |-> data.last_name]) @@ authors
             /\ nextAuthorId' = nextAuthorId + 1
             /\ UNCHANGED <<books, rel, nextBookId, today, handler>>
             /\ resp' = Response("author_create", id, data, 201, {},
                                 AuthorData("create", id)')

\* update (PUT, partial = FALSE) and partial_update (PATCH, partial = TRUE)
AuthorUpdate(id, data, partial) ==
    LET op == IF partial THEN "author_partial_update" ELSE "author_update"
        action == IF partial THEN "partial_update" ELSE "update"
        errors == AuthorFieldErrors(data, partial)
    IN  IF id \notin AuthorIds
        THEN /\ resp' = NotFound(op, id, data)
             /\ UNCHANGED <<authors, books, rel, nextAuthorId, nextBookId, today, handler>>
        ELSE IF errors # {}
        THEN /\ resp' = BadRequest(op, id, data, errors)
             /\ UNCHANGED <<authors, books, rel, nextAuthorId, nextBookId, today, handler>>
        ELSE /\ authors' = [authors EXCEPT ![id] =
                    [first_name |-> Get(data, "first_name", @.first_name),
                     last_name |-> Get(data, "last_name", @.last_name)]]
             /\ UNCHANGED <<books, rel, nextAuthorId, nextBookId, today, handler>>
             /\ resp' = Response(op, id, data, 200, {}, AuthorData(action, id)')

\* DELETE: the Author row goes, and with it its rows of the through table
AuthorDestroy(id) ==
    IF id \notin AuthorIds
    THEN /\ resp' = NotFound("author_destroy", id, NoData)
         /\ UNCHANGED <<authors, books, rel, nextAuthorId, nextBookId, today, handler>>
    ELSE /\ authors' = [a \in AuthorIds \ {id} |-> authors[a]]
         /\ rel' = {p \in rel : p[2] # id}
         /\ UNCHANGED <<books, nextAuthorId, nextBookId, today, handler>>
         /\ resp' = Response("author_destroy", id, NoData, 204, {}, NoData)

AuthorRetrieve(id) ==
    /\ UNCHANGED <<authors, books, rel, nextAuthorId, nextBookId, today, handler>>
    /\ resp' = IF id \notin AuthorIds
               THEN NotFound("author_retrieve", id, NoData)
               ELSE Response("author_retrieve", id, NoData, 200, {},
                             AuthorData("retrieve", id))

(***************************************************************************)
(* Book writes: BookViewSet create / update / partial_update / destroy     *)
(* with BookWriteSerializer.                                               *)
(***************************************************************************)
\* UniqueValidator of Book.isbn: another row holds the value
IsbnTaken(value, instance) ==
    \E b \in BookIds : b # instance /\ books[b].isbn = value

\* the isbn field: CharField (blank, trimmed, max_length, unique), then
\* validate_isbn
IsbnFieldErrors(data, partial, instance) ==
    IF "isbn" \notin DOMAIN data
    THEN (IF partial THEN {} ELSE {<<"isbn", "required">>})
    ELSE LET value == Strip(data.isbn)
             validators ==
                 (IF Len(value) > IsbnMaxLength THEN {"max_length"} ELSE {})
                 \cup (IF IsbnTaken(value, instance) THEN {"unique"} ELSE {})
         IN  IF value = <<>> THEN {<<"isbn", "blank">>}
             ELSE IF validators # {} THEN {<<"isbn", e>> : e \in validators}
             ELSE {<<"isbn", e>> : e \in validate_isbn_errors(value)}

DateFieldErrors(data, partial) ==
    IF "publication_date" \notin DOMAIN data /\ ~partial
    THEN {<<"publication_date", "required">>}
    ELSE {}

\* the authors field: required, allow_empty = False, existing primary keys
AuthorsFieldErrors(data, partial) ==
    IF "authors" \notin DOMAIN data
    THEN (IF partial THEN {} ELSE {<<"authors", "required">>})
    ELSE IF data.authors = {} THEN {<<"authors", "empty">>}
    ELSE IF data.authors \subseteq AuthorIds THEN {}
    ELSE {<<"authors", "does_not_exist">>}

\* a validate() that accepts every attrs
validate_skipped(attrs) == {}

\* BookWriteSerializer.validate: run on the validated fields
validate(attrs) ==
    LET as == Get(attrs, "authors", {})
    IN  IF as = {} THEN {<<"authors", "missing">>} ELSE {}

\* Serializer.run_validation: the field errors, and validate() only when
\* there are none
BookErrors(data, partial, instance) ==
    LET fieldErrors == IsbnFieldErrors(data, partial, instance)
                           \cup DateFieldErrors(data, partial)
                           \cup AuthorsFieldErrors(data, partial)
    IN  IF fieldErrors # {} THEN fieldErrors ELSE validate(data)

\* the validated isbn: the value validate_isbn returns
ValidatedIsbn(data) == validate_isbn_value(Strip(data.isbn))

BookCreate(data) ==
    \E id \in {nextBookId} :
    LET errors == BookErrors(data, FALSE, 0)
    IN  IF errors # {}
        THEN /\ resp' = BadRequest("book_create", 0, data, errors)
             /\ UNCHANGED <<authors, books, rel, nextAuthorId, nextBookId, today, handler>>
        ELSE /\ books' = (id :> [isbn |-> ValidatedIsbn(data),
                                 publication_date |-> data.publication_date,
                                 pages |-> Get(data, "pages", Null),
                                 language |-> Get(data, "language", "English")])
                             @@ books
             /\ rel' = rel \cup {<<id, a>> : a \in data.authors}
             /\ nextBookId' = nextBookId + 1
             /\ UNCHANGED <<authors, nextAuthorId, today, handler>>
             /\ resp' = Response("book_create", id, data, 201, {},
                                 BookData("create", id, <<>>)')

\* update (PUT, partial = FALSE) and partial_update (PATCH, partial = TRUE)
BookUpdate(id, data, partial) ==
    LET op == IF partial THEN "book_partial_update" ELSE "book_update"
        action == IF partial THEN "partial_update" ELSE "update"
        errors == BookErrors(data, partial, id)
    IN  IF id \notin BookIds
        THEN /\ resp' = NotFound(op, id, data)
             /\ UNCHANGED <<authors, books, rel, nextAuthorId, nextBookId, today, handler>>
        ELSE IF errors # {}
        THEN /\ resp' = BadRequest(op, id, data, errors)
             /\ UNCHANGED <<authors, books, rel, nextAuthorId, nextBookId, today, handler>>
        ELSE /\ books' = [books EXCEPT ![id] =
                    [isbn |-> IF "isbn" \in DOMAIN data
                              THEN ValidatedIsbn(data) ELSE @.isbn,
                     publication_date |->
                         Get(data, "publication_date", @.publication_date),
                     pages |-> Get(data, "pages", @.pages),
                     language |-> Get(data, "language", @.language)]]
             /\ rel' = IF "authors" \in DOMAIN data
                       THEN {p \in rel : p[1] # id}
                                \cup {<<id, a>> : a \in data.authors}
                       ELSE rel
             /\ UNCHANGED <<authors, nextAuthorId, nextBookId, today, handler>>
             /\ resp' = Response(op, id, data, 200, {}, BookData(action, id, <<>>)')

BookDestroy(id) ==
    IF id \notin BookIds
    THEN /\ resp' = NotFound("book_destroy", id, NoData)
         /\ UNCHANGED <<authors, books, rel, nextAuthorId, nextBookId, today, handler>>
    ELSE /\ books' = [b \in BookIds \ {id} |-> books[b]]
         /\ rel' = {p \in rel : p[1] # id}
         /\ UNCHANGED <<authors, nextAuthorId, nextBookId, today, handler>>
         /\ resp' = Response("book_destroy", id, NoData, 204, {}, NoData)

\* GET /books/{id}/: scan is the row order the database returns ties in
BookRetrieve(id, scan) ==
    /\ UNCHANGED <<authors, books, rel, nextAuthorId, nextBookId, today, handler>>
    /\ resp' = IF id \notin BookIds
               THEN NotFound("book_retrieve", id, NoData)
               ELSE Response("book_retrieve", id, NoData, 200, {},
                             BookData("retrieve", id, scan))

(***************************************************************************)
(* Aggregates.  An average is NULL or {<<sum, count>>}; a maximum or a     *)
(* minimum is NULL or {n}.  A rounded number is an integer count of units  *)
(* of 10^-ndigits (round(x, 2) is in hundredths).                          *)
(***************************************************************************)
Avg(f, S) == IF S = {} THEN Null ELSE {<<SetSum(f, S), Cardinality(S)>>}

Max(f, S) == IF S = {} THEN Null ELSE {SetMax({f[x] : x \in S})}

Min(f, S) == IF S = {} THEN Null ELSE {SetMin({f[x] : x \in S})}

\* x or 0, of a maximum or minimum
OrZero(x) == IF x = Null THEN 0 ELSE CHOOSE n \in x : TRUE

\* num / den rounded to the nearest integer, a tie to the even one
RoundHalfEven(num, den) ==
    LET q == num \div den
        r == num % den
    IN  IF 2 * r < den THEN q
        ELSE IF 2 * r > den THEN q + 1
        ELSE IF q % 2 = 0 THEN q ELSE q + 1

\* round(avg or 0, ndigits), in units of 1 / scale, scale = 10^ndigits
RoundOrZero(avg, scale) ==
    IF avg = Null THEN 0
    ELSE LET q == CHOOSE x \in avg : TRUE
         IN  RoundHalfEven(q[1] * scale, q[2])

(***************************************************************************)
(* AuthorViewSet.statistics.                                               *)
(***************************************************************************)
\* the book counts of the Authors that have Books (an INNER JOIN)
AuthorBookCountOnlyWithBooks ==
    [a \in {x \in AuthorIds : BooksOf(x) # {}} |-> Cardinality(BooksOf(a))]

\* annotate(book_count=Count('books')) over Author: a row for every Author
\* (LEFT JOIN), with the number of its through rows
AuthorBookCount == [a \in AuthorIds |-> Cardinality(BooksOf(a))]

\* authors_with_book_count.aaggregate(...) over an INNER JOIN
AuthorAggregateInnerJoin ==
    LET c == AuthorBookCountOnlyWithBooks
    IN  [total_authors |-> Cardinality(DOMAIN c),
         avg_books_per_author |-> Avg(c, DOMAIN c),
         max_books |-> Max(c, DOMAIN c),
         min_books |-> Min(c, DOMAIN c)]

\* authors_with_book_count.aaggregate(...)
AuthorAggregate ==
    LET c == AuthorBookCount
    IN  [total_authors |-> Cardinality(DOMAIN c),
         avg_books_per_author |-> Avg(c, DOMAIN c),
         max_books |-> Max(c, DOMAIN c),
         min_books |-> Min(c, DOMAIN c)]

\* the number of rows of top_authors
TopAuthorsLimit == 5

\* the number of rows of authors_without_books.authors
AuthorsWithoutBooksLimit == 10

\* authors_with_book_count[:5], unsorted
TopAuthorsUnordered(scan) == Take(scan, TopAuthorsLimit)

\* authors_with_book_count[:5]: ORDER BY book_count DESC LIMIT 5
TopAuthors(scan) == Take(OrderByDesc(scan, AuthorBookCount), TopAuthorsLimit)

\* annotate(...).filter(book_count=0)
AuthorsWithoutBooks == {a \in AuthorIds : AuthorBookCount[a] = 0}

\* GET /authors/statistics/: scanTop and scanNone are the row orders of the
\* two list queries
AuthorStatistics(scanTop, scanNone) ==
    \E aggregated_stats \in {AuthorAggregate},
       top_authors \in {TopAuthors(scanTop)},
       authors_without_books_list \in
           {Take(SelectSeq(scanNone, LAMBDA a : a \in AuthorsWithoutBooks),
                 AuthorsWithoutBooksLimit)},
       authors_without_books_count \in {Cardinality(AuthorsWithoutBooks)} :
        /\ UNCHANGED <<authors, books, rel, nextAuthorId, nextBookId, today, handler>>
        /\ resp' = Response("author_statistics", 0, NoData, 200, {},
              [aggregated_statistics |->
                   [total_authors |-> aggregated_stats.total_authors,
                    average_books_per_author |->
                        RoundOrZero(aggregated_stats.avg_books_per_author, 100),
                    max_books_by_single_author |-> OrZero(aggregated_stats.max_books),
                    min_books_by_single_author |-> OrZero(aggregated_stats.min_books)],
               authors_without_books |->
                   [count |-> authors_without_books_count,
                    authors |-> [i \in 1..Len(authors_without_books_list) |->
                        [id |-> authors_without_books_list[i],
                         name |-> full_name(authors[authors_without_books_list[i]])]]],
               top_authors |-> [i \in 1..Len(top_authors) |->
                   [id |-> top_authors[i],
                    name |-> full_name(authors[top_authors[i]]),
                    book_count |-> AuthorBookCount[top_authors[i]]]]])

(***************************************************************************)
(* BookViewSet.statistics.                                                 *)
(***************************************************************************)
\* annotate(author_count=Count('authors')) over Book: a row for every Book
\* (LEFT JOIN), with the number of its through rows
BookAuthorCount == [b \in BookIds |-> Cardinality(AuthorsOf(b))]

\* books_with_author_count.filter(author_count__gt=1), with at least one
\* author instead
CollaborativeBooksGte == {b \in BookIds : BookAuthorCount[b] >= 1}

\* books_with_author_count.filter(author_count__gt=1)
CollaborativeBooks == {b \in BookIds : BookAuthorCount[b] > 1}

\* the number of rows of collaborative_books.books
CollaborativeLimit == 10

\* collaborative_books[:10]: ORDER BY author_count DESC LIMIT 10
CollaborativeList(scan) ==
    Take(OrderByDesc(SelectSeq(scan, LAMBDA b : b \in CollaborativeBooks),
                     BookAuthorCount),
         CollaborativeLimit)

\* the nullable numbers of a column, without the NULLs
NotNull(col) == {b \in DOMAIN col : col[b] # Null}

Value(col) == [b \in NotNull(col) |-> CHOOSE n \in col[b] : TRUE]

\* Book.objects.aaggregate(...)
BookAggregate ==
    LET pages == Value([b \in BookIds |-> books[b].pages])
        dates == [b \in BookIds |-> books[b].publication_date]
    IN  [total_books |-> Cardinality(BookIds),
         avg_pages |-> Avg(pages, DOMAIN pages),
         max_pages |-> Max(pages, DOMAIN pages),
         min_pages |-> Min(pages, DOMAIN pages),
         latest_publication |-> Max(dates, BookIds),
         earliest_publication |-> Min(dates, BookIds)]

\* Book.objects.values('language').annotate(count=Count('id'))
\* .order_by('-count'): the languages present, most books first
BooksByLanguage(scan) ==
    LET langs == {books[b].language : b \in BookIds}
        count == [l \in langs |-> Cardinality({b \in BookIds : books[b].language = l})]
        first == [l \in langs |-> SetMin({b \in BookIds : books[b].language = l})]
        order == OrderByDesc(SelectSeq(scan, LAMBDA b : \E l \in langs : first[l] = b),
                             [b \in BookIds |-> count[books[b].language]])
    IN  [i \in 1..Len(order) |->
            [language |-> books[order[i]].language,
             count |-> count[books[order[i]].language]]]

\* GET /books/statistics/: scan is the row order of the list queries
BookStatistics(scan) ==
    \E book_stats \in {[avg_authors_per_book |-> Avg(BookAuthorCount, BookIds)]},
       aggregated_stats \in {BookAggregate},
       books_by_language \in {BooksByLanguage(scan)},
       collaborative_books_list \in {CollaborativeList(scan)},
       collaborative_books_count \in {Cardinality(CollaborativeBooks)} :
        /\ UNCHANGED <<authors, books, rel, nextAuthorId, nextBookId, today, handler>>
        /\ resp' = Response("book_statistics", 0, NoData, 200, {},
              [aggregated_statistics |->
                   [total_books |-> aggregated_stats.total_books,
                    average_authors_per_book |->
                        RoundOrZero(book_stats.avg_authors_per_book, 100),
                    average_pages |-> RoundOrZero(aggregated_stats.avg_pages, 1),
                    max_pages |-> OrZero(aggregated_stats.max_pages),
                    min_pages |-> OrZero(aggregated_stats.min_pages),
                    latest_publication |-> aggregated_stats.latest_publication,
                    earliest_publication |-> aggregated_stats.earliest_publication],
               collaborative_books |->
                   [count |-> collaborative_books_count,
                    books |-> [i \in 1..Len(collaborative_books_list) |->
                        [id |-> collaborative_books_list[i],
                         isbn |-> books[collaborative_books_list[i]].isbn,
                         author_count |->
                             BookAuthorCount[collaborative_books_list[i]]]]],
               books_by_language |-> books_by_language])

(***************************************************************************)
(* BookViewSet.recent.                                                     *)
(***************************************************************************)
\* filter(publication_date__gte=five_years_ago), with __gt instead
RecentBooksGt == {b \in BookIds : books[b].publication_date > today - FiveYears}

\* Book.objects.filter(publication_date__gte=five_years_ago)
\* .annotate(author_count=Count('authors')): one row for each such Book
RecentBooks == {b \in BookIds : books[b].publication_date >= today - FiveYears}

\* GET /books/recent/: scan is the row order of the query, authorScan that
\* of the authors nested in each Book
Recent(scan, authorScan) ==
    \E recent_books_list \in
           {OrderByDesc(SelectSeq(scan, LAMBDA b : b \in RecentBooks),
                        [b \in BookIds |-> books[b].publication_date])} :
        /\ UNCHANGED <<authors, books, rel, nextAuthorId, nextBookId, today, handler>>
        /\ resp' = Response("book_recent", 0, NoData, 200, {},
              [count |-> Len(recent_books_list),
               books |-> [i \in 1..Len(recent_books_list) |->
                   BookListSerializer(recent_books_list[i], authorScan)]])

\* a day passes
Tick ==
    /\ today' = today + 1
    /\ UNCHANGED <<authors, books, rel, nextAuthorId, nextBookId, resp, handler>>

(***************************************************************************)
(* Requests are handled one after the other: a request is taken when the   *)
(* response of the one before has been sent.                               *)
(***************************************************************************)
NoResponse == Response("none", 0, NoData, 0, {}, NoData)

Idle == resp = NoResponse

\* the response leaves the server
Deliver ==
    /\ ~Idle
    /\ resp' = NoResponse
    /\ UNCHANGED <<authors, books, rel, nextAuthorId, nextBookId, today, handler>>

(***************************************************************************)
(* Spec: the REST operations on Authors and Books.                         *)
(***************************************************************************)
\* a publication date inside the recent window
SomeDate == FiveYears

\* request bodies for Author writes: a valid body, a first name too short,
\* a body without first_name
AuthorBodies ==
    {[first_name |-> "Al", last_name |-> "Bo"],
     [first_name |-> "A", last_name |-> "Bo"],
     [last_name |-> "Bo"]}

\* the ISBN the client gives Book id: ten digits (thirteen from id 10 on),
\* valid, another one for each id below 20
IsbnOf(id) == MkIsbn(id % 10, IF id < 10 THEN 10 ELSE 13, 0, FALSE)

\* an ISBN of nine digits, invalid
ShortIsbn == MkIsbn(0, 9, 0, FALSE)

\* request bodies for a write of Book id: with the Book's ISBN, an invalid
\* one or none, and with or without authors (any set of primary keys, the
\* empty list included)
BookBodies(id) ==
    LET base == {[isbn |-> i, publication_date |-> SomeDate] :
                     i \in {IsbnOf(id), ShortIsbn}}
                    \cup {[publication_date |-> SomeDate]}
    IN  base \cup {("authors" :> as) @@ b : b \in base, as \in SUBSET (1..MaxAuthors)}

AuthorCreates ==
    /\ Idle
    /\ nextAuthorId <= MaxAuthors
    /\ \E data \in AuthorBodies : AuthorCreate(data)

AuthorUpdates ==
    /\ Idle
    /\ \E id \in 1..MaxAuthors, data \in AuthorBodies, partial \in BOOLEAN :
            AuthorUpdate(id, data, partial)

AuthorDestroys == Idle /\ \E id \in 1..MaxAuthors : AuthorDestroy(id)

AuthorRetrieves == Idle /\ \E id \in 1..MaxAuthors : AuthorRetrieve(id)

BookCreates ==
    /\ Idle
    /\ nextBookId <= MaxBooks
    /\ \E data \in BookBodies(nextBookId) : BookCreate(data)

BookUpdates ==
    /\ Idle
    /\ \E id \in 1..MaxBooks, partial \in BOOLEAN :
            \E data \in BookBodies(id) : BookUpdate(id, data, partial)

BookDestroys == Idle /\ \E id \in 1..MaxBooks : BookDestroy(id)

BookRetrieves ==
    /\ Idle
    /\ \E id \in 1..MaxBooks, scan \in ScanOrders(AuthorIds) : BookRetrieve(id, scan)

Next ==
    \/ AuthorCreates
    \/ AuthorUpdates
    \/ AuthorDestroys
    \/ AuthorRetrieves
    \/ BookCreates
    \/ BookUpdates
    \/ BookDestroys
    \/ BookRetrieves
    \/ Deliver

Spec == Init /\ [][Next]_vars

(***************************************************************************)
(* Properties of Spec.                                                     *)
(***************************************************************************)
BookWriteOps == {"book_create", "book_update", "book_partial_update"}

AuthorWriteOps == {"author_create", "author_update", "author_partial_update"}

\* the response of a write that was applied
Succeeded(r) == r.status \in {200, 201}

\* a request body whose authors list is empty or absent
NoAuthorsGiven(req) == "authors" \notin DOMAIN req \/ req.authors = {}

\* an error map that reports the authors field
HasAuthorsError(r) == \E e \in r.errors : e[1] = "authors"

\* C1: in every reachable state every persisted Book has at least one
\* associated Author.
C1_EveryBookHasAnAuthor == \A b \in BookIds : \E a \in AuthorIds : <<b, a>> \in rel

\* C3, as claimed: a Book write (on an existing Book) whose authors list is
\* empty or absent is answered with the missing-authors validation error.
C3_NoAuthorsAlwaysAuthorsError ==
    (resp.op \in BookWriteOps /\ resp.status # 404 /\ NoAuthorsGiven(resp.req))
        => (resp.status = 400 /\ HasAuthorsError(resp))

\* one step of the amended C3: a Book write whose authors list is empty or
\* absent is never applied (the Book table, the relation, the Author table and the key
\* counters stay as they were); on an existing target it is answered 400, and
\* the error map reports the authors field unless the write is a partial
\* update without authors in which another field failed its own validation,
\* where only that field is reported.
C3_NoAuthorsStep ==
    (resp' # NoResponse /\ resp'.op \in BookWriteOps /\ NoAuthorsGiven(resp'.req))
        => /\ UNCHANGED <<authors, books, rel, nextAuthorId, nextBookId>>
           /\ resp'.status \in {400, 404}
           /\ resp'.status = 404 => resp'.op # "book_create" /\ resp'.target \notin BookIds
           /\ resp'.status = 400 =>
                \/ HasAuthorsError(resp')
                \/ /\ resp'.op = "book_partial_update"
                   /\ "authors" \notin DOMAIN resp'.req
                   /\ resp'.errors # {}

\* C3, amended: every step of a Book write whose authors list is empty or
\* absent leaves the store unchanged and is answered as C3_NoAuthorsStep says.
C3_NoAuthorsNeverApplied == [][C3_NoAuthorsStep]_vars

\* C3 witness: a partial update without authors of a Book that has authors,
\* refused by validate()
C3_Witness ==
    /\ resp.op = "book_partial_update"
    /\ "authors" \notin DOMAIN resp.req
    /\ resp.status = 400
    /\ resp.errors = {<<"authors", "missing">>}
    /\ \E a \in AuthorIds : <<resp.target, a>> \in rel

\* C4, as claimed: the body of every successful write is the Detail read
\* model, with its derived fields.
C4_WritesReturnDetail ==
    /\ (resp.op \in BookWriteOps /\ Succeeded(resp))
            => {"author_count", "author_names"} \subseteq DOMAIN resp.body
    /\ (resp.op \in AuthorWriteOps /\ Succeeded(resp))
            => {"full_name", "book_count"} \subseteq DOMAIN resp.body

\* C4, amended: the body of every successful write is the Write read model of
\* the written row: its id and its settable fields (for a Book the primary
\* keys of its authors), and none of the derived fields.
C4_WritesReturnWriteModel ==
    /\ (resp.op \in BookWriteOps /\ Succeeded(resp))
            => /\ resp.body = [id |-> resp.target,
                               isbn |-> books[resp.target].isbn,
                               publication_date |-> books[resp.target].publication_date,
                               pages |-> books[resp.target].pages,
                               language |-> books[resp.target].language,
                               authors |-> {a \in AuthorIds : <<resp.target, a>> \in rel}]
               /\ resp.body.authors = resp.req.authors
    /\ (resp.op \in AuthorWriteOps /\ Succeeded(resp))
            => resp.body = [id |-> resp.target,
                            first_name |-> authors[resp.target].first_name,
                            last_name |-> authors[resp.target].last_name]

\* C4 witness: a successful update of a Book to two authors
C4_Witness ==
    /\ resp.op = "book_update"
    /\ Succeeded(resp)
    /\ Cardinality(resp.body.authors) = 2

\* C6: the author_count of a Book detail read is the number of Authors now
\* related to the Book, and the book_count of an Author detail read is the
\* number of Books now related to the Author.
C6_CountsAreLive ==
    /\ (resp.op = "book_retrieve" /\ resp.status = 200)
            => resp.body.author_count
                   = Cardinality({p \in rel : p[1] = resp.target})
    /\ (resp.op = "author_retrieve" /\ resp.status = 200)
            => resp.body.book_count
                   = Cardinality({p \in rel : p[2] = resp.target})

\* C6 witness: a Book read that counts one author after another Author row
\* was deleted, with a second Author row present
C6_Witness ==
    /\ resp.op = "book_retrieve"
    /\ resp.status = 200
    /\ resp.body.author_count = 1
    /\ Cardinality(AuthorIds) = 1
    /\ nextAuthorId > 2

(***************************************************************************)
(* SpecIsbn: Book writes over the shapes an ISBN can be submitted in, by   *)
(* one Author.                                                             *)
(***************************************************************************)
IsbnDigitCounts == {0, 9, 10, 11, 13, 14}

\* ISBNs submitted: each digit count, with up to MaxSeps separators, with and
\* without a letter, and one with blanks around it
IsbnShapes ==
    {MkIsbn(0, n, h, x) : n \in IsbnDigitCounts, h \in 0..MaxSeps, x \in BOOLEAN}
        \cup {<<" ">> \o MkIsbn(0, 10, 0, FALSE) \o <<" ">>}

IsbnBodies ==
    {[isbn |-> i, publication_date |-> SomeDate, authors |-> {1}] : i \in IsbnShapes}

IsbnAuthorCreates ==
    /\ Idle
    /\ nextAuthorId <= 1
    /\ AuthorCreate([first_name |-> "Al", last_name |-> "Bo"])

IsbnBookCreates ==
    /\ Idle
    /\ nextBookId <= IsbnMaxBooks
    /\ \E data \in IsbnBodies : BookCreate(data)

IsbnBookUpdates ==
    /\ Idle
    /\ \E id \in 1..IsbnMaxBooks, data \in IsbnBodies, partial \in BOOLEAN :
            BookUpdate(id, data, partial)

IsbnBookDestroys == Idle /\ \E id \in 1..IsbnMaxBooks : BookDestroy(id)

NextIsbn ==
    \/ IsbnAuthorCreates
    \/ IsbnBookCreates
    \/ IsbnBookUpdates
    \/ IsbnBookDestroys
    \/ Deliver

SpecIsbn == Init /\ [][NextIsbn]_vars

(***************************************************************************)
(* Properties of SpecIsbn.                                                 *)
(***************************************************************************)
\* every character is a digit
AllDigits(s) == \A i \in 1..Len(s) : s[i] \in DigitChars

\* the characters of s that are neither a hyphen nor a space
WithoutSeparators(s) == SelectSeq(s, LAMBDA c : c \notin {"-", " "})

\* C2: a Book write whose ISBN, hyphens and spaces removed, holds a non-digit
\* or does not count 10 or 13 digits is refused with an error on isbn; one
\* that counts 10 or 13 digits and nothing else is accepted (no error on
\* isbn, unless another Book holds the same value).
C2_IsbnAcceptedIffWellFormed ==
    (resp.op \in BookWriteOps /\ resp.status # 404 /\ "isbn" \in DOMAIN resp.req)
        => LET digits == WithoutSeparators(resp.req.isbn)
               wellFormed == AllDigits(digits) /\ Len(digits) \in {10, 13}
               isbnErrors == {e \in resp.errors : e[1] = "isbn"}
           IN  /\ ~wellFormed => resp.status = 400 /\ isbnErrors # {}
               /\ wellFormed => isbnErrors \subseteq {<<"isbn", "unique">>}

\* C5: no two persisted Books have ISBNs that are equal once hyphens and
\* spaces are removed, and every persisted ISBN is then 10 or 13 digits.
C5_StoredIsbnsUniqueNormalized ==
    /\ \A b1, b2 \in BookIds :
            b1 # b2 => WithoutSeparators(books[b1].isbn)
                           # WithoutSeparators(books[b2].isbn)
    /\ \A b \in BookIds :
            LET digits == WithoutSeparators(books[b].isbn)
            IN  AllDigits(digits) /\ Len(digits) \in {10, 13}

(***************************************************************************)
(* SpecAuthorStats: Author statistics over up to StatMaxAuthors Authors    *)
(* and StatMaxBooks Books.                                                 *)
(***************************************************************************)
\* the body that creates Author id: last names alternate, Bo first
StatAuthorBody(id) ==
    [first_name |-> "Al", last_name |-> NameOrder[(id % 2) + 1]]

\* the authors lists Books are created with
StatBookAuthorSets == {{1}, {1, 2}, {2, 3}}

StatAuthorCreates ==
    /\ Idle
    /\ nextAuthorId <= StatMaxAuthors
    /\ AuthorCreate(StatAuthorBody(nextAuthorId))

StatAuthorDestroys == Idle /\ \E id \in 1..StatMaxAuthors : AuthorDestroy(id)

StatBookCreates ==
    /\ Idle
    /\ nextBookId <= StatMaxBooks
    /\ \E as \in StatBookAuthorSets :
            BookCreate([isbn |-> IsbnOf(nextBookId), publication_date |-> SomeDate,
                        authors |-> as])

AuthorStatisticsRequests ==
    /\ Idle
    /\ \E scanTop \in ScanOrders(AuthorIds), scanNone \in ScanOrders(AuthorIds) :
            AuthorStatistics(scanTop, scanNone)

NextAuthorStats ==
    \/ StatAuthorCreates
    \/ StatAuthorDestroys
    \/ StatBookCreates
    \/ AuthorStatisticsRequests
    \/ Deliver

SpecAuthorStats == Init /\ [][NextAuthorStats]_vars

(***************************************************************************)
(* Properties of SpecAuthorStats.                                          *)
(***************************************************************************)
\* the number of Books the through table relates to Author a
RelatedBooks(a) == Cardinality({p \in rel : p[2] = a})

Abs(x) == IF x < 0 THEN 0 - x ELSE x

\* C7: Author statistics returns the number of Author rows, the number of
\* Authors without Books, and the maximum, the minimum and the mean (to the
\* nearest hundredth) of the Authors' book counts, all 0 without Authors.
C7_AuthorAggregates ==
    resp.op = "author_statistics" =>
        LET agg == resp.body.aggregated_statistics
            n == Cardinality(AuthorIds)
            counts == {RelatedBooks(a) : a \in AuthorIds}
            total == SetSum([a \in AuthorIds |-> RelatedBooks(a)], AuthorIds)
        IN  /\ agg.total_authors = n
            /\ resp.body.authors_without_books.count
                   = Cardinality({a \in AuthorIds : RelatedBooks(a) = 0})
            /\ n = 0 => /\ agg.average_books_per_author = 0
                        /\ agg.max_books_by_single_author = 0
                        /\ agg.min_books_by_single_author = 0
            /\ n > 0 => /\ agg.max_books_by_single_author \in counts
                        /\ \A c \in counts : c <= agg.max_books_by_single_author
                        /\ agg.min_books_by_single_author \in counts
                        /\ \A c \in counts : agg.min_books_by_single_author <= c
                        /\ 2 * Abs(agg.average_books_per_author * n - 100 * total) <= n

\* C7 witness: the spec's example, Authors with 0, 2 and 1 Books
C7_Witness ==
    /\ resp.op = "author_statistics"
    /\ Cardinality(AuthorIds) = 3
    /\ {RelatedBooks(a) : a \in AuthorIds} = {0, 1, 2}
    /\ resp.body.aggregated_statistics.min_books_by_single_author = 0
    /\ resp.body.aggregated_statistics.max_books_by_single_author = 2
    /\ resp.body.aggregated_statistics.average_books_per_author = 100
    /\ resp.body.authors_without_books.count = 1

\* top_authors holds min(5, number of Authors) rows in non-increasing
\* book_count order
TopAuthorsSorted(top) ==
    /\ Len(top) = Min2(5, Cardinality(AuthorIds))
    /\ \A i, j \in 1..Len(top) : i < j => top[i].book_count >= top[j].book_count

\* C8, as claimed: top_authors holds min(5, number of Authors) authors in
\* non-increasing book_count order, authors of equal book_count by last name,
\* then first name.
C8_TopAuthorsTiesByName ==
    resp.op = "author_statistics" =>
        LET top == resp.body.top_authors
        IN  /\ TopAuthorsSorted(top)
            /\ \A i, j \in 1..Len(top) :
                  (i < j /\ top[i].book_count = top[j].book_count)
                      => AuthorOrderingKey(authors[top[i].id])
                            <= AuthorOrderingKey(authors[top[j].id])

\* C8, amended: top_authors holds min(5, number of Authors) different
\* Authors, each with its number of Books, in non-increasing book_count
\* order, and no Author left out has more Books than one listed; the order
\* of Authors of equal book_count is the database's.
C8_TopAuthors ==
    resp.op = "author_statistics" =>
        LET top == resp.body.top_authors
            listed == {top[i].id : i \in 1..Len(top)}
        IN  /\ TopAuthorsSorted(top)
            /\ listed \subseteq AuthorIds
            /\ Cardinality(listed) = Len(top)
            /\ \A i \in 1..Len(top) : top[i].book_count = RelatedBooks(top[i].id)
            /\ \A a \in AuthorIds \ listed, i \in 1..Len(top) :
                  RelatedBooks(a) <= top[i].book_count

\* C8 witness: six Authors, five listed, the first with more Books than the
\* last
C8_Witness ==
    /\ resp.op = "author_statistics"
    /\ Cardinality(AuthorIds) = 6
    /\ Len(resp.body.top_authors) = 5
    /\ resp.body.top_authors[1].book_count > resp.body.top_authors[5].book_count

(***************************************************************************)
(* SpecRecent: the recent operation over Books of dates around the cutoff, *)
(* as days pass.                                                           *)
(***************************************************************************)
\* publication dates submitted: the day before the first cutoff and the days
\* from it on
RecentDates == 0..(MaxTicks + 2)

RecentBodies(id) ==
    {[isbn |-> IsbnOf(id), publication_date |-> d, authors |-> {1}] : d \in RecentDates}

RecentAuthorCreates ==
    /\ Idle
    /\ nextAuthorId <= 1
    /\ AuthorCreate(StatAuthorBody(nextAuthorId))

RecentAuthorDestroys == Idle /\ AuthorDestroy(1)

RecentBookCreates ==
    /\ Idle
    /\ nextBookId <= RecentMaxBooks
    /\ \E data \in RecentBodies(nextBookId) : BookCreate(data)

RecentBookUpdates ==
    /\ Idle
    /\ \E id \in 1..RecentMaxBooks : \E data \in RecentBodies(id) :
            BookUpdate(id, data, FALSE)

RecentTicks == Idle /\ today < FiveYears + 1 + MaxTicks /\ Tick

RecentRequests ==
    /\ Idle
    /\ \E scan \in ScanOrders(BookIds), authorScan \in ScanOrders(AuthorIds) :
            Recent(scan, authorScan)

NextRecent ==
    \/ RecentAuthorCreates
    \/ RecentAuthorDestroys
    \/ RecentBookCreates
    \/ RecentBookUpdates
    \/ RecentTicks
    \/ RecentRequests
    \/ Deliver

SpecRecent == Init /\ [][NextRecent]_vars

(***************************************************************************)
(* Properties of SpecRecent.                                               *)
(***************************************************************************)
\* C9: recent returns exactly the Books published on or after today - 1825
\* days, each once, in non-increasing publication_date order, and its count
\* is the length of its books list.
C9_RecentBooks ==
    resp.op = "book_recent" =>
        LET bs == resp.body.books
            listed == {bs[i].id : i \in 1..Len(bs)}
        IN  /\ listed = {b \in BookIds : books[b].publication_date >= today - 1825}
            /\ Len(bs) = Cardinality(listed)
            /\ \A i, j \in 1..Len(bs) :
                  i < j => bs[i].publication_date >= bs[j].publication_date
            /\ \A i \in 1..Len(bs) :
                  bs[i].publication_date = books[bs[i].id].publication_date
            /\ resp.body.count = Len(bs)

\* C9 witness: two Books listed, the later first and the other of the cutoff
\* day itself, and a Book of the day before left out
C9_Witness ==
    /\ resp.op = "book_recent"
    /\ resp.body.count = 2
    /\ resp.body.books[1].publication_date > resp.body.books[2].publication_date
    /\ resp.body.books[2].publication_date = today - 1825
    /\ \E b \in BookIds : books[b].publication_date = today - 1826

(***************************************************************************)
(* SpecBookStats: Book statistics over up to CollabMaxBooks Books by two   *)
(* or three Authors, some of whom are deleted.                             *)
(***************************************************************************)
\* the authors lists Books are created with
CollabAuthorSets == {{1, 2}, {1, 2, 3}}

CollabAuthorCreates ==
    /\ Idle
    /\ nextAuthorId <= CollabMaxAuthors
    /\ AuthorCreate(StatAuthorBody(nextAuthorId))

CollabAuthorDestroys == Idle /\ \E id \in 1..CollabMaxAuthors : AuthorDestroy(id)

CollabBookCreates ==
    /\ Idle
    /\ nextBookId <= CollabMaxBooks
    /\ \E as \in CollabAuthorSets :
            BookCreate([isbn |-> IsbnOf(nextBookId), publication_date |-> SomeDate,
                        authors |-> as])

BookStatisticsRequests ==
    /\ Idle
    /\ \E scan \in ScanOrders(BookIds) : BookStatistics(scan)

NextBookStats ==
    \/ CollabAuthorCreates
    \/ CollabAuthorDestroys
    \/ CollabBookCreates
    \/ BookStatisticsRequests
    \/ Deliver

SpecBookStats == Init /\ [][NextBookStats]_vars

(***************************************************************************)
(* Properties of SpecBookStats.                                            *)
(***************************************************************************)
\* the number of Authors the through table relates to Book b
RelatedAuthors(b) == Cardinality({p \in rel : p[1] = b})

\* C10: Book statistics (no write between its queries) returns as
\* collaborative_books.count the number of Books with more than one Author,
\* and as collaborative_books.books min(10, that number) different Books,
\* each with its number of Authors, which is more than one, in non-increasing
\* author_count order.
C10_CollaborativeBooks ==
    resp.op = "book_statistics" =>
        LET collab == resp.body.collaborative_books
            bs == collab.books
            listed == {bs[i].id : i \in 1..Len(bs)}
        IN  /\ collab.count = Cardinality({b \in BookIds : RelatedAuthors(b) > 1})
            /\ Len(bs) = Min2(10, collab.count)
            /\ listed \subseteq BookIds
            /\ Cardinality(listed) = Len(bs)
            /\ \A i \in 1..Len(bs) :
                  bs[i].author_count > 1 /\ bs[i].author_count = RelatedAuthors(bs[i].id)
            /\ \A i, j \in 1..Len(bs) : i < j => bs[i].author_count >= bs[j].author_count

\* C10 witness: eleven collaborative Books, ten listed, from three Authors
\* down to two
C10_Witness ==
    /\ resp.op = "book_statistics"
    /\ resp.body.collaborative_books.count = 11
    /\ Len(resp.body.collaborative_books.books) = 10
    /\ resp.body.collaborative_books.books[1].author_count = 3
    /\ resp.body.collaborative_books.books[10].author_count = 2

(***************************************************************************)
(* The statistics handlers, step by step.  A handler runs without          *)
(* suspending up to "await asyncio.gather(...)": the coroutines are made,  *)
(* gather wraps each in a task and schedules it, and the handler suspends  *)
(* on the future gather returns.  A task then runs its query against the   *)
(* store as it is at that time, and ends with the rows or with the         *)
(* database's exception.  The future gets the first exception of a task,   *)
(* or the list of results once every task has one; the tasks still pending *)
(* when it gets an exception are not cancelled.  The handler resumes with   *)
(* the future's outcome: it returns the Response, or the exception leaves  *)
(* the view and the request is answered 500.                               *)
(***************************************************************************)
\* the awaitables given to asyncio.gather, in argument order
AuthorSubQueries ==
    <<"aggregated_stats", "top_authors", "authors_without_books_list",
      "authors_without_books_count">>

BookSubQueries ==
    <<"book_stats", "aggregated_stats", "books_by_language",
      "collaborative_books_list", "collaborative_books_count">>

SubQueries(op) == IF op = "author_statistics" THEN AuthorSubQueries ELSE BookSubQueries

\* a task that has not ended; the result of a task is {} or {value}
PendingTask == [state |-> "pending", result |-> Null]

\* a gather that schedules its first awaitable only
gather_first_only(coros) == [q \in {coros[1]} |-> PendingTask]

\* asyncio.gather(*coros): a scheduled task for each awaitable
gather(coros) == [q \in Range(coros) |-> PendingTask]

\* what a sub-query of AuthorViewSet.statistics returns at this time
AuthorSubQueryResult(q, scan) ==
    CASE q = "aggregated_stats" -> AuthorAggregate
      [] q = "top_authors" -> TopAuthors(scan)
      [] q = "authors_without_books_list" ->
            Take(SelectSeq(scan, LAMBDA a : a \in AuthorsWithoutBooks),
                 AuthorsWithoutBooksLimit)
      [] q = "authors_without_books_count" -> Cardinality(AuthorsWithoutBooks)

\* what a sub-query of BookViewSet.statistics returns at this time
BookSubQueryResult(q, scan) ==
    CASE q = "book_stats" -> [avg_authors_per_book |-> Avg(BookAuthorCount, BookIds)]
      [] q = "aggregated_stats" -> BookAggregate
      [] q = "books_by_language" -> BooksByLanguage(scan)
      [] q = "collaborative_books_list" ->
            LET list == CollaborativeList(scan)
            IN  [i \in 1..Len(list) |->
                    [id |-> list[i], isbn |-> books[list[i]].isbn,
                     author_count |-> BookAuthorCount[list[i]]]]
      [] q = "collaborative_books_count" -> Cardinality(CollaborativeBooks)

\* the rows of the Author list queries carry the columns the handler reads
AuthorRows(list) ==
    [i \in 1..Len(list) |->
        [id |-> list[i], name |-> full_name(authors[list[i]]),
         book_count |-> AuthorBookCount[list[i]]]]

SubQueryResult(op, q, scan) ==
    IF op = "author_statistics"
    THEN (IF q \in {"top_authors", "authors_without_books_list"}
          THEN AuthorRows(AuthorSubQueryResult(q, scan))
          ELSE AuthorSubQueryResult(q, scan))
    ELSE BookSubQueryResult(q, scan)

\* the Response of AuthorViewSet.statistics, from the results r of gather
AuthorStatisticsPayload(r) ==
    [aggregated_statistics |->
         [total_authors |-> r.aggregated_stats.total_authors,
          average_books_per_author |->
              RoundOrZero(r.aggregated_stats.avg_books_per_author, 100),
          max_books_by_single_author |-> OrZero(r.aggregated_stats.max_books),
          min_books_by_single_author |-> OrZero(r.aggregated_stats.min_books)],
     authors_without_books |->
         [count |-> r.authors_without_books_count,
          authors |-> [i \in 1..Len(r.authors_without_books_list) |->
              [id |-> r.authors_without_books_list[i].id,
               name |-> r.authors_without_books_list[i].name]]],
     top_authors |-> r.top_authors]

\* the Response of BookViewSet.statistics, from the results r of gather
BookStatisticsPayload(r) ==
    [aggregated_statistics |->
         [total_books |-> r.aggregated_stats.total_books,
          average_authors_per_book |->
              RoundOrZero(r.book_stats.avg_authors_per_book, 100),
          average_pages |-> RoundOrZero(r.aggregated_stats.avg_pages, 1),
          max_pages |-> OrZero(r.aggregated_stats.max_pages),
          min_pages |-> OrZero(r.aggregated_stats.min_pages),
          latest_publication |-> r.aggregated_stats.latest_publication,
          earliest_publication |-> r.aggregated_stats.earliest_publication],
     collaborative_books |->
         [count |-> r.collaborative_books_count,
          books |-> r.collaborative_books_list],
     books_by_language |-> r.books_by_language]

StatisticsPayload(op, r) ==
    IF op = "author_statistics" THEN AuthorStatisticsPayload(r)
    ELSE BookStatisticsPayload(r)

\* the exception leaves the view: HTTP 500, no payload
ServerError(op) == Response(op, 0, NoData, 500, {}, NoData)

\* the future asyncio.gather returns: the first exception of a task, or the
\* results once every task has ended with one
GatherOutcome(tasks) ==
    IF \E q \in DOMAIN tasks : tasks[q].state = "failed" THEN "exception"
    ELSE IF \A q \in DOMAIN tasks : tasks[q].state = "done" THEN "result"
    ELSE "pending"

\* a request arrives: the handler runs to its await
StatisticsStart(op) ==
    /\ handler = NoHandler
    /\ handler' = [op |-> op, pc |-> "await", tasks |-> gather(SubQueries(op))]
    /\ UNCHANGED <<authors, books, rel, nextAuthorId, nextBookId, today, resp>>

\* the task of sub-query q runs: it ends with the rows the store holds now
\* (scan is the row order of ties), or with an exception when fails
SubQueryRun(q, scan, fails) ==
    /\ handler # NoHandler
    /\ q \in DOMAIN handler.tasks
    /\ handler.tasks[q].state = "pending"
    /\ \E task \in {IF fails THEN [state |-> "failed", result |-> Null]
                    ELSE [state |-> "done",
                          result |-> {SubQueryResult(handler.op, q, scan)}]} :
            handler' = [handler EXCEPT !.tasks[q] = task]
    /\ UNCHANGED <<authors, books, rel, nextAuthorId, nextBookId, today, resp>>

\* the handler resumes from its await with the outcome of gather
StatisticsResume ==
    /\ handler.pc = "await"
    /\ \E outcome \in {GatherOutcome(handler.tasks)} :
        /\ outcome # "pending"
        /\ resp' =
              IF outcome = "exception" THEN ServerError(handler.op)
              ELSE Response(handler.op, 0, NoData, 200, {},
                       StatisticsPayload(handler.op,
                           [q \in DOMAIN handler.tasks |->
                               CHOOSE v \in handler.tasks[q].result : TRUE]))
    /\ handler' = [handler EXCEPT !.pc = "done"]
    /\ UNCHANGED <<authors, books, rel, nextAuthorId, nextBookId, today>>

\* the request is over: its tasks are followed no further
StatisticsEnd ==
    /\ handler.pc = "done"
    /\ handler' = NoHandler
    /\ UNCHANGED <<authors, books, rel, nextAuthorId, nextBookId, today, resp>>

(***************************************************************************)
(* SpecGather: statistics requests whose sub-queries run one at a time,    *)
(* in any order, each of which may fail, while Authors and Books are       *)
(* written.                                                                *)
(***************************************************************************)
StatisticsOps == {"author_statistics", "book_statistics"}

GatherAuthorCreates ==
    /\ Idle
    /\ nextAuthorId <= GatherMaxAuthors
    /\ AuthorCreate(StatAuthorBody(nextAuthorId))

GatherAuthorDestroys == Idle /\ \E id \in 1..GatherMaxAuthors : AuthorDestroy(id)

GatherBookCreates ==
    /\ Idle
    /\ nextBookId <= GatherMaxBooks
    /\ BookCreate([isbn |-> IsbnOf(nextBookId), publication_date |-> SomeDate,
                   authors |-> 1..GatherMaxAuthors])

StatisticsStarts == Idle /\ \E op \in StatisticsOps : StatisticsStart(op)

SubQueryRuns ==
    \E q \in DOMAIN handler.tasks, fails \in BOOLEAN :
        \E scan \in ScanOrders(IF handler.op = "author_statistics"
                               THEN AuthorIds ELSE BookIds) :
            SubQueryRun(q, scan, fails)

StatisticsResumes == Idle /\ StatisticsResume

StatisticsEnds == Idle /\ StatisticsEnd

NextGather ==
    \/ GatherAuthorCreates
    \/ GatherAuthorDestroys
    \/ GatherBookCreates
    \/ StatisticsStarts
    \/ SubQueryRuns
    \/ StatisticsResumes
    \/ StatisticsEnds
    \/ Deliver

SpecGather == Init /\ [][NextGather]_vars

(***************************************************************************)
(* Properties of SpecGather.                                               *)
(***************************************************************************)
TaskStates(s) == {q \in DOMAIN handler.tasks : handler.tasks[q].state = s}

\* the result the task of sub-query q ended with
ResultOf(q) == CHOOSE v \in handler.tasks[q].result : TRUE

\* the counts and lists of the payload are those the tasks ended with
C11_PayloadOfResults ==
    IF handler.op = "author_statistics"
    THEN /\ resp.body.aggregated_statistics.total_authors
                = ResultOf("aggregated_stats").total_authors
         /\ resp.body.authors_without_books.count
                = ResultOf("authors_without_books_count")
         /\ Len(resp.body.authors_without_books.authors)
                = Len(ResultOf("authors_without_books_list"))
         /\ resp.body.top_authors = ResultOf("top_authors")
    ELSE /\ resp.body.aggregated_statistics.total_books
                = ResultOf("aggregated_stats").total_books
         /\ resp.body.collaborative_books.count
                = ResultOf("collaborative_books_count")
         /\ resp.body.collaborative_books.books
                = ResultOf("collaborative_books_list")
         /\ resp.body.books_by_language = ResultOf("books_by_language")

\* C11: within one statistics request every sub-query has its task by the
\* time the handler waits, and none ends before; the request is answered 200
\* only when every sub-query has ended with a result, with the payload made
\* of those results; a request with a failed sub-query is answered 500
\* without a payload; and no request is answered while a sub-query is
\* pending and none has failed.
C11_GatherJoinsAll ==
    /\ handler # NoHandler =>
          /\ handler.op \in StatisticsOps
          /\ handler.pc \in {"await", "done"}
          /\ DOMAIN handler.tasks = Range(SubQueries(handler.op))
    /\ handler.pc # "done" => resp.op \notin StatisticsOps
    /\ handler.pc = "done" =>
          /\ TaskStates("pending") # {} => TaskStates("failed") # {}
          /\ resp.op \in StatisticsOps =>
                /\ resp.op = handler.op
                /\ resp.status \in {200, 500}
                /\ TaskStates("failed") # {} <=> resp.status = 500
                /\ resp.status = 500 => resp.body = NoData
                /\ resp.status = 200 =>
                      /\ TaskStates("done") = Range(SubQueries(handler.op))
                      /\ C11_PayloadOfResults

\* C11 witness: a request answered 500 after one sub-query failed, with
\* another ended with its result and another still pending
C11_Witness ==
    /\ resp.op = "book_statistics"
    /\ resp.status = 500
    /\ handler.pc = "done"
    /\ Cardinality(TaskStates("failed")) = 1
    /\ TaskStates("done") # {}
    /\ TaskStates("pending") # {}

====
